---- MODULE Spec2Model ----
(***************************************************************************)
(* The xdebug extension of HHVM (hphp/runtime/ext/xdebug/ext_xdebug.cpp):  *)
(* the request-scoped attachment of the xdebug profiler, the trace and     *)
(* code-coverage operations built on it, and the filename templater.       *)
(*                                                                         *)
(* Strings are sequences of one-character strings.  A failed assert() does *)
(* not stop the run (NDEBUG, the production build): the name of the        *)
(* function whose assertion did not hold is recorded in call.asserts.      *)
(* raise_error throws: the rest of the operation is skipped.               *)
(***************************************************************************)
EXTENDS Integers, Sequences, FiniteSets, TLC

VARIABLES
  phase,            \* where the thread is in the request cycle
  shut,             \* the request-shutdown handlers that have run
  XDebugExtension,  \* the static configuration members of XDebugExtension
  s_request,        \* XDebugRequestData: m_profiler_attached, m_init_time
  factory,          \* what s_profiler_factory has bound to the thread
  profiler,         \* the XDebugProfiler object the factory holds
  coverage,         \* ti->m_reqInjectionData.getCoverage()
  covData,          \* ti->m_coverage holds recorded lines
  globals,          \* get_global_variables(): the request's global arrays
  env,              \* process id, clock, next random number, crc32(cwd), session.name
  call              \* the last operation: its arguments, result and what it touched

vars == <<phase, shut, XDebugExtension, s_request, factory, profiler,
          coverage, covData, globals, env, call>>

-----------------------------------------------------------------------------
(* Bounds of the model *)

\* the clock takes the values 1..MaxTime
MaxTime == 2

-----------------------------------------------------------------------------
(* Strings, variants and arrays *)

Str(s) == [isNull |-> FALSE, str |-> s]
NullStr == [isNull |-> TRUE, str |-> <<>>]

\* a Variant holding a string, or any other value with its toString()
StringVal(s) == [isString |-> TRUE, str |-> s]
OtherVal(s) == [isString |-> FALSE, str |-> s]

EmptyArray == [k \in {} |-> StringVal(<<>>)]

\* globals->get(name).toArray(): a missing global converts to the empty array
GlobalArray(name) == IF name \in DOMAIN globals THEN globals[name] ELSE EmptyArray

\* arr[key].toString(): a missing key reads as null, whose string is empty
ArrayStr(arr, key) == IF key \in DOMAIN arr THEN arr[key].str ELSE <<>>

Digit(d) == <<"0", "1", "2", "3", "4", "5", "6", "7", "8", "9",
              "a", "b", "c", "d", "e", "f">>[d + 1]

RECURSIVE NumToStr(_, _)
NumToStr(n, base) ==
  IF n < base THEN <<Digit(n)>>
  ELSE Append(NumToStr(n \div base, base), Digit(n % base))

\* the session.name setting, which is the key of a cookie: set, or not set
SessionName == [isNull |-> FALSE, str |-> "PHPSESSID"]
NoSessionName == [isNull |-> TRUE, str |-> ""]

-----------------------------------------------------------------------------
(* Names of the globals and keys the extension reads *)

s_SERVER == "_SERVER"
s_COOKIE == "_COOOKIE"
s_GET == "_GET"
s_POST == "_POST"
s_HTTP_HOST == "HTTP_HOST"
s_REQUEST_URI == "REQUEST_URI"
s_SCRIPT_NAME == "SCRIPT_NAME"
s_UNIQUE_ID == "UNIQUE_ID"

-----------------------------------------------------------------------------
(* format_filename *)

SpecialChars == {"/", "\\", ".", "?", "&", "+", " "}

\* replace_special_chars without the case for the plus sign
replace_special_chars_partial(str) ==
  [i \in 1..Len(str) |->
     IF str[i] \in SpecialChars \ {"+"} THEN "_" ELSE str[i]]

replace_special_chars(str) ==
  [i \in 1..Len(str) |-> IF str[i] \in SpecialChars THEN "_" ELSE str[i]]

\* the body of one case of the switch: $_SERVER[key], when present and a string
ServerDirective(key) ==
  LET server == GlobalArray(s_SERVER)
  IN  IF key \in DOMAIN server /\ server[key].isString
        THEN replace_special_chars(server[key].str)
        ELSE <<>>

\* the switch whose default case appends the character without the percent
Directive_bare(c) ==
  CASE c = "c" -> NumToStr(env.cwdCrc, 10)
    [] c = "p" -> NumToStr(env.pid, 10)
    [] c = "r" -> NumToStr(env.rand, 16)
    [] c = "s" -> ServerDirective(s_SCRIPT_NAME)
    [] c = "t" -> NumToStr(env.time, 10)
    [] c = "u" -> NumToStr(env.time, 10) \o <<"_">> \o NumToStr(env.usec, 10)
    [] c = "H" -> ServerDirective(s_HTTP_HOST)
    [] c = "R" -> IF s_REQUEST_URI \in DOMAIN globals
                    THEN replace_special_chars(
                           ArrayStr(GlobalArray(s_SERVER), s_REQUEST_URI))
                    ELSE <<>>
    [] c = "U" -> ServerDirective(s_UNIQUE_ID)
    [] c = "S" -> IF ~env.sessionName.isNull
                    THEN LET cookies == GlobalArray(s_COOKIE)
                             name == env.sessionName.str
                         IN  IF name \in DOMAIN cookies /\ cookies[name].isString
                               THEN replace_special_chars(cookies[name].str)
                               ELSE <<>>
                    ELSE <<"%">>
    [] c = "%" -> <<"%">>
    [] OTHER -> <<c>>

\* what the switch on the character after a % appends
Directive(c) ==
  CASE c = "c" -> NumToStr(env.cwdCrc, 10)
    [] c = "p" -> NumToStr(env.pid, 10)
    [] c = "r" -> NumToStr(env.rand, 16)
    [] c = "s" -> ServerDirective(s_SCRIPT_NAME)
    [] c = "t" -> NumToStr(env.time, 10)
    [] c = "u" -> NumToStr(env.time, 10) \o <<"_">> \o NumToStr(env.usec, 10)
    [] c = "H" -> ServerDirective(s_HTTP_HOST)
    [] c = "R" -> IF s_REQUEST_URI \in DOMAIN globals
                    THEN replace_special_chars(
                           ArrayStr(GlobalArray(s_SERVER), s_REQUEST_URI))
                    ELSE <<>>
    [] c = "U" -> ServerDirective(s_UNIQUE_ID)
    [] c = "S" -> IF ~env.sessionName.isNull
                    THEN LET cookies == GlobalArray(s_COOKIE)
                             name == env.sessionName.str
                         IN  IF name \in DOMAIN cookies /\ cookies[name].isString
                               THEN replace_special_chars(cookies[name].str)
                               ELSE <<>>
                    ELSE <<"%">>
    [] c = "%" -> <<"%">>
    [] OTHER -> <<"%", c>>

\* the scanning loop; pos counts from 0 as in the source
RECURSIVE FormatLoop(_, _, _)
FormatLoop(formatFile, pos, buf) ==
  LET formatlen == Len(formatFile)
  IN  IF pos >= formatlen THEN buf
      ELSE LET c == formatFile[pos + 1]
           IN  IF c # "%" \/ pos + 1 = formatlen
                 THEN FormatLoop(formatFile, pos + 1, Append(buf, c))
                 ELSE FormatLoop(formatFile, pos + 2,
                                 buf \o Directive(formatFile[pos + 2]))

format_filename(dir, formatFile, addSuffix) ==
  LET start == IF dir.isNull THEN <<>> ELSE Append(dir.str, "/")
      body == FormatLoop(formatFile, 0, start)
  IN  IF addSuffix THEN body \o <<".", "x", "t">> ELSE body

-----------------------------------------------------------------------------
(* The profiler object and the factory that binds it to the thread *)

\* the option bits, as the xdebug constants of the same names
k_XDEBUG_TRACE_APPEND == 1
k_XDEBUG_TRACE_COMPUTERIZED == 2
k_XDEBUG_TRACE_HTML == 4
k_XDEBUG_TRACE_NAKED_FILENAME == 8
k_XDEBUG_PROFILE_APPEND == 1

HasBit(n, b) == (n \div b) % 2 = 1

\* a | b, for a single bit b
OrBit(a, b) == IF HasBit(a, b) THEN a ELSE a + b

\* the object the factory creates: nothing enabled
NewProfiler ==
  [tracing |-> FALSE, traceFile |-> <<>>, traceOpts |-> 0,
   profiling |-> FALSE, profFile |-> <<>>, profOpts |-> 0,
   collectMemory |-> FALSE, collectTime |-> FALSE]

\* the value of the variable profiler while the factory holds no xdebug profiler
NoProfiler == NewProfiler

enableTracing(p, path, options) ==
  IF p.tracing THEN p
  ELSE [p EXCEPT !.tracing = TRUE, !.traceFile = path, !.traceOpts = options]

disableTracing(p) == [p EXCEPT !.tracing = FALSE]

enableProfiling(p, path, options) ==
  IF p.profiling THEN p
  ELSE [p EXCEPT !.profiling = TRUE, !.profFile = path, !.profOpts = options]

isCollecting(p) == p.tracing \/ p.profiling

\* ProfilerFactory::start succeeds only while no profiler is bound
FactoryStart(f) == f = "none"

-----------------------------------------------------------------------------
(* The policy of XDebugExtension *)

s_XDEBUG_PROFILE == "XDEBUG_PROFILE"

isTriggerSet(trigger) ==
  \/ trigger \in DOMAIN GlobalArray(s_COOKIE)
  \/ trigger \in DOMAIN GlobalArray(s_GET)
  \/ trigger \in DOMAIN GlobalArray(s_POST)

isProfilingNeeded ==
  \/ XDebugExtension.ProfilerEnable
  \/ XDebugExtension.ProfilerEnableTrigger /\ isTriggerSet(s_XDEBUG_PROFILE)

isTracingNeeded == XDebugExtension.AutoTrace

isProfilerNeeded == isProfilingNeeded \/ isTracingNeeded

-----------------------------------------------------------------------------
(* Results of an operation *)

RetVoid == [kind |-> "void", str |-> <<>>]
RetFalse == [kind |-> "false", str |-> <<>>]
RetTrue == [kind |-> "true", str |-> <<>>]
RetString(s) == [kind |-> "string", str |-> s]
RetError == [kind |-> "error", str |-> <<>>]
RetArray(hasData) == [kind |-> IF hasData THEN "array" ELSE "emptyarray", str |-> <<>>]

\* the thread as an operation starts: the state it works on and what it has
\* touched so far; trail lists, in order, the steps taken on the profiler
BeginCall ==
  [attached |-> s_request.m_profiler_attached,
   factory |-> factory,
   profiler |-> profiler,
   ret |-> RetVoid,
   err |-> "none",
   accessed |-> FALSE,
   beginFrames |-> 0,
   attachTried |-> FALSE,
   stops |-> 0,
   ifNeeded |-> FALSE,
   trail |-> <<>>,
   asserts |-> {}]

AssertThat(m, cond, where) ==
  IF cond THEN m ELSE [m EXCEPT !.asserts = @ \cup {where}]

raise_error(m, error) == [m EXCEPT !.err = error, !.ret = RetError]

-----------------------------------------------------------------------------
(* Helpers of the lifecycle *)

xdebug_profiler(m) ==
  [AssertThat(m, m.attached, "xdebug_profiler") EXCEPT !.accessed = TRUE]

\* start_tracing in which a setting replaces the caller's options
start_tracing_overriding(m, filename, options) ==
  LET o1 == IF XDebugExtension.TraceOptions
              THEN k_XDEBUG_TRACE_APPEND ELSE options
      o2 == IF XDebugExtension.TraceFormat = 1
              THEN k_XDEBUG_TRACE_COMPUTERIZED ELSE o1
      o3 == IF XDebugExtension.TraceFormat = 2
              THEN k_XDEBUG_TRACE_HTML ELSE o2
      dirname == IF filename.isNull
                   THEN Str(XDebugExtension.TraceOutputDir) ELSE NullStr
      file == IF filename.isNull
                THEN XDebugExtension.TraceOutputName ELSE filename.str
      suffix == ~HasBit(o3, k_XDEBUG_TRACE_NAKED_FILENAME)
      abs_filename == format_filename(dirname, file, suffix)
  IN  [m EXCEPT !.profiler = enableTracing(@, abs_filename, o3),
                !.trail = Append(@, "enableTracing")]

\* start_tracing that puts the configured directory before any filename
start_tracing_prefixed(m, filename, options) ==
  LET o1 == IF XDebugExtension.TraceOptions
              THEN OrBit(options, k_XDEBUG_TRACE_APPEND) ELSE options
      o2 == IF XDebugExtension.TraceFormat = 1
              THEN OrBit(o1, k_XDEBUG_TRACE_COMPUTERIZED) ELSE o1
      o3 == IF XDebugExtension.TraceFormat = 2
              THEN OrBit(o2, k_XDEBUG_TRACE_HTML) ELSE o2
      dirname == Str(XDebugExtension.TraceOutputDir)
      file == IF filename.isNull
                THEN XDebugExtension.TraceOutputName ELSE filename.str
      suffix == ~HasBit(o3, k_XDEBUG_TRACE_NAKED_FILENAME)
      abs_filename == format_filename(dirname, file, suffix)
  IN  [m EXCEPT !.profiler = enableTracing(@, abs_filename, o3),
                !.trail = Append(@, "enableTracing")]

start_tracing(m, filename, options) ==
  LET o1 == IF XDebugExtension.TraceOptions
              THEN OrBit(options, k_XDEBUG_TRACE_APPEND) ELSE options
      o2 == IF XDebugExtension.TraceFormat = 1
              THEN OrBit(o1, k_XDEBUG_TRACE_COMPUTERIZED) ELSE o1
      o3 == IF XDebugExtension.TraceFormat = 2
              THEN OrBit(o2, k_XDEBUG_TRACE_HTML) ELSE o2
      dirname == IF filename.isNull
                   THEN Str(XDebugExtension.TraceOutputDir) ELSE NullStr
      file == IF filename.isNull
                THEN XDebugExtension.TraceOutputName ELSE filename.str
      suffix == ~HasBit(o3, k_XDEBUG_TRACE_NAKED_FILENAME)
      abs_filename == format_filename(dirname, file, suffix)
  IN  [m EXCEPT !.profiler = enableTracing(@, abs_filename, o3),
                !.trail = Append(@, "enableTracing")]

start_profiling(m) ==
  LET opts == IF XDebugExtension.ProfilerAppend THEN k_XDEBUG_PROFILE_APPEND ELSE 0
      abs_filename == format_filename(Str(XDebugExtension.ProfilerOutputDir),
                                      XDebugExtension.ProfilerOutputName, FALSE)
  IN  [m EXCEPT !.profiler = enableProfiling(@, abs_filename, opts),
                !.trail = Append(@, "enableProfiling")]

\* attach_xdebug_profiler that does not look at what the factory answers
attach_xdebug_profiler_unchecked(m) ==
  LET a == [AssertThat(m, ~m.attached, "attach_xdebug_profiler")
              EXCEPT !.attachTried = TRUE]
      b == xdebug_profiler([a EXCEPT !.factory = "xdebug",
                                     !.profiler = NewProfiler,
                                     !.attached = TRUE,
                                     !.trail = Append(@, "attached")])
      c == IF isProfilingNeeded THEN start_profiling(b) ELSE b
      d == IF isTracingNeeded THEN start_tracing(c, NullStr, 0) ELSE c
  IN  [d EXCEPT !.profiler.collectMemory = XDebugExtension.CollectMemory,
                !.profiler.collectTime = XDebugExtension.CollectTime,
                !.trail = @ \o <<"setCollectMemory", "setCollectTime">>]

\* attach_xdebug_profiler that returns quietly when the factory refuses
attach_xdebug_profiler_quiet(m) ==
  LET a == [AssertThat(m, ~m.attached, "attach_xdebug_profiler")
              EXCEPT !.attachTried = TRUE]
  IN  IF FactoryStart(a.factory)
        THEN LET b == xdebug_profiler([a EXCEPT !.factory = "xdebug",
                                                !.profiler = NewProfiler,
                                                !.attached = TRUE,
                                                !.trail = Append(@, "attached")])
                 c == IF isProfilingNeeded THEN start_profiling(b) ELSE b
                 d == IF isTracingNeeded THEN start_tracing(c, NullStr, 0) ELSE c
             IN  [d EXCEPT !.profiler.collectMemory = XDebugExtension.CollectMemory,
                           !.profiler.collectTime = XDebugExtension.CollectTime,
                           !.trail = @ \o <<"setCollectMemory", "setCollectTime">>]
        ELSE a

\* attach_xdebug_profiler that starts the trace before the profile
attach_xdebug_profiler_swapped(m) ==
  LET a == [AssertThat(m, ~m.attached, "attach_xdebug_profiler")
              EXCEPT !.attachTried = TRUE]
  IN  IF FactoryStart(a.factory)
        THEN LET b == xdebug_profiler([a EXCEPT !.factory = "xdebug",
                                                !.profiler = NewProfiler,
                                                !.attached = TRUE,
                                                !.trail = Append(@, "attached")])
                 c == IF isTracingNeeded THEN start_tracing(b, NullStr, 0) ELSE b
                 d == IF isProfilingNeeded THEN start_profiling(c) ELSE c
             IN  [d EXCEPT !.profiler.collectMemory = XDebugExtension.CollectMemory,
                           !.profiler.collectTime = XDebugExtension.CollectTime,
                           !.trail = @ \o <<"setCollectMemory", "setCollectTime">>]
        ELSE raise_error(a, "ProfilerUnavailable")

attach_xdebug_profiler(m) ==
  LET a == [AssertThat(m, ~m.attached, "attach_xdebug_profiler")
              EXCEPT !.attachTried = TRUE]
  IN  IF FactoryStart(a.factory)
        THEN LET b == xdebug_profiler([a EXCEPT !.factory = "xdebug",
                                                !.profiler = NewProfiler,
                                                !.attached = TRUE,
                                                !.trail = Append(@, "attached")])
                 c == IF isProfilingNeeded THEN start_profiling(b) ELSE b
                 d == IF isTracingNeeded THEN start_tracing(c, NullStr, 0) ELSE c
             IN  [d EXCEPT !.profiler.collectMemory = XDebugExtension.CollectMemory,
                           !.profiler.collectTime = XDebugExtension.CollectTime,
                           !.trail = @ \o <<"setCollectMemory", "setCollectTime">>]
        ELSE raise_error(a, "ProfilerUnavailable")

detach_xdebug_profiler(m) ==
  [AssertThat(m, m.attached, "detach_xdebug_profiler")
     EXCEPT !.factory = "none", !.profiler = NoProfiler,
            !.stops = @ + 1, !.attached = FALSE]

\* detach_xdebug_profiler_if_needed that does not ask isCollecting
detach_xdebug_profiler_always(m) ==
  detach_xdebug_profiler(
    xdebug_profiler(
      [AssertThat(m, m.attached, "detach_xdebug_profiler_if_needed")
         EXCEPT !.ifNeeded = TRUE]))

detach_xdebug_profiler_if_needed(m) ==
  LET a == xdebug_profiler(
             [AssertThat(m, m.attached, "detach_xdebug_profiler_if_needed")
                EXCEPT !.ifNeeded = TRUE])
  IN  IF ~isCollecting(a.profiler) THEN detach_xdebug_profiler(a) ELSE a

-----------------------------------------------------------------------------
(* The operations, as functions of the thread's state *)

xdebug_get_tracefile_name(m) ==
  IF m.attached
    THEN LET a == xdebug_profiler(m)
         IN  IF a.profiler.tracing
               THEN [a EXCEPT !.ret = RetString(a.profiler.traceFile)]
               ELSE [a EXCEPT !.ret = RetFalse]
    ELSE [m EXCEPT !.ret = RetFalse]

xdebug_get_profiler_filename(m) ==
  IF ~m.attached THEN [m EXCEPT !.ret = RetFalse]
  ELSE LET a == xdebug_profiler(m)
       IN  IF a.profiler.profiling
             THEN [a EXCEPT !.ret = RetString(a.profiler.profFile)]
             ELSE [a EXCEPT !.ret = RetFalse]

\* xdebug_start_trace without the test for a running trace
xdebug_start_trace_restart(m, traceFileVar, options) ==
  LET traceFile == IF traceFileVar.isString THEN Str(traceFileVar.str) ELSE NullStr
      a == IF ~m.attached THEN attach_xdebug_profiler(m) ELSE m
  IN  IF a.err # "none" THEN a
      ELSE LET b == xdebug_profiler(a)
               c == start_tracing(b, traceFile, options)
               d == [c EXCEPT !.beginFrames = @ + 1]
           IN  xdebug_get_tracefile_name(d)

\* xdebug_start_trace that answers with the filename of a trace already running
xdebug_start_trace_reporting(m, traceFileVar, options) ==
  LET traceFile == IF traceFileVar.isString THEN Str(traceFileVar.str) ELSE NullStr
      a == IF ~m.attached THEN attach_xdebug_profiler(m) ELSE m
  IN  IF a.err # "none" THEN a
      ELSE LET b == xdebug_profiler(a)
           IN  IF b.profiler.tracing THEN xdebug_get_tracefile_name(b)
               ELSE LET c == start_tracing(b, traceFile, options)
                        d == [c EXCEPT !.beginFrames = @ + 1]
                    IN  xdebug_get_tracefile_name(d)

xdebug_start_trace(m, traceFileVar, options) ==
  LET traceFile == IF traceFileVar.isString THEN Str(traceFileVar.str) ELSE NullStr
      a == IF ~m.attached THEN attach_xdebug_profiler(m) ELSE m
  IN  IF a.err # "none" THEN a
      ELSE LET b == xdebug_profiler(a)
           IN  IF b.profiler.tracing THEN [b EXCEPT !.ret = RetFalse]
               ELSE LET c == start_tracing(b, traceFile, options)
                        d == [c EXCEPT !.beginFrames = @ + 1]
                    IN  xdebug_get_tracefile_name(d)

\* xdebug_stop_trace without the test for a running trace
xdebug_stop_trace_untested(m) ==
  IF m.attached
    THEN LET a == xdebug_profiler(m)
             filename == a.profiler.traceFile
             b == [a EXCEPT !.profiler = disableTracing(@)]
             c == detach_xdebug_profiler_if_needed(b)
         IN  [c EXCEPT !.ret = RetString(filename)]
    ELSE [m EXCEPT !.ret = RetFalse]

xdebug_stop_trace(m) ==
  IF m.attached
    THEN LET a == xdebug_profiler(m)
         IN  IF a.profiler.tracing
               THEN LET filename == a.profiler.traceFile
                        b == [a EXCEPT !.profiler = disableTracing(@)]
                        c == detach_xdebug_profiler_if_needed(b)
                    IN  [c EXCEPT !.ret = RetString(filename)]
               ELSE [a EXCEPT !.ret = RetFalse]
    ELSE [m EXCEPT !.ret = RetFalse]

_xdebug_check_trigger_vars(m) ==
  IF XDebugExtension.Enable /\ isProfilerNeeded
    THEN attach_xdebug_profiler(m) ELSE m

\* XDebugExtension::requestInit that does not test Enable
XDebugExtension_requestInit_anyway(m) ==
  IF isProfilerNeeded THEN attach_xdebug_profiler(m) ELSE m

XDebugExtension_requestInit(m) ==
  IF XDebugExtension.Enable /\ isProfilerNeeded
    THEN attach_xdebug_profiler(m) ELSE m

\* XDebugExtension::requestShutdown that does not test m_profiler_attached
XDebugExtension_requestShutdown_untested(m) ==
  IF XDebugExtension.Enable THEN detach_xdebug_profiler(m) ELSE m

XDebugExtension_requestShutdown(m) ==
  IF XDebugExtension.Enable /\ m.attached
    THEN detach_xdebug_profiler(m) ELSE m

\* the setter that detaches whatever the profiler is still collecting
SetProfilerSetting_detaching(m, sym, val) ==
  IF m.attached
    THEN LET a == xdebug_profiler(m)
             b == IF sym = "CollectMemory"
                    THEN [a EXCEPT !.profiler.collectMemory = val]
                    ELSE [a EXCEPT !.profiler.collectTime = val]
         IN  detach_xdebug_profiler([b EXCEPT !.ifNeeded = TRUE])
    ELSE m

\* the setter IniSetting::Bind installs for a profiler setting sym
SetProfilerSetting(m, sym, val) ==
  IF m.attached
    THEN LET a == xdebug_profiler(m)
             b == IF sym = "CollectMemory"
                    THEN [a EXCEPT !.profiler.collectMemory = val]
                    ELSE [a EXCEPT !.profiler.collectTime = val]
         IN  detach_xdebug_profiler_if_needed(b)
    ELSE m

\* xdebug_start_code_coverage that turns coverage on before it looks at options
xdebug_start_code_coverage_early(flag, options, nested) ==
  IF options # 0
    THEN [coverage |-> TRUE, err |-> "UnsupportedOption", notice |-> FALSE]
    ELSE [coverage |-> TRUE, err |-> "none", notice |-> nested]

\* flag is the thread's coverage flag, nested is g_context->isNested()
xdebug_start_code_coverage(flag, options, nested) ==
  IF options # 0
    THEN [coverage |-> flag, err |-> "UnsupportedOption", notice |-> FALSE]
    ELSE [coverage |-> TRUE, err |-> "none", notice |-> nested]

-----------------------------------------------------------------------------
(* Inputs *)

\* the first argument of xdebug_start_trace: a string, or null
TraceFileArgs == {StringVal(<<"f", "%", "t">>), OtherVal(<<>>)}

\* the second argument of xdebug_start_trace
TraceOptionArgs == {0, k_XDEBUG_TRACE_NAKED_FILENAME}

\* the argument of xdebug_start_code_coverage: XDEBUG_CC_UNUSED | XDEBUG_CC_DEAD_CODE
CoverageOptionArgs == 0..3

ProfilerSettings == {"CollectMemory", "CollectTime"}

ServerArray ==
  [k \in {s_SCRIPT_NAME} |-> StringVal(<<"/", "a", " ", "b">>)]

TriggerArray == [k \in {s_XDEBUG_PROFILE} |-> StringVal(<<"1">>)]

\* the global arrays a request can start with
RequestGlobals ==
  { [k \in {s_SERVER} |-> ServerArray],
    [k \in {s_SERVER, s_GET} |-> IF k = s_SERVER THEN ServerArray ELSE TriggerArray],
    [k \in {s_SERVER, "_COOKIE"} |-> IF k = s_SERVER THEN ServerArray ELSE TriggerArray] }

NoGlobals == [k \in {} |-> EmptyArray]

\* the settings start_tracing and start_profiling merge into the options
OptionSettings ==
  { [TraceOptions |-> FALSE, TraceFormat |-> 0, ProfilerAppend |-> FALSE],
    [TraceOptions |-> TRUE, TraceFormat |-> 2, ProfilerAppend |-> TRUE] }

\* moduleLoad: with enable off nothing else is read and the members keep the
\* defaults of their definitions (lines 730-733), whatever those are for the
\* switches of the policy
Configurations ==
  LET all == [Enable : BOOLEAN,
              ProfilerEnable : BOOLEAN,
              ProfilerEnableTrigger : BOOLEAN,
              AutoTrace : BOOLEAN,
              TraceOptions : {o.TraceOptions : o \in OptionSettings},
              TraceFormat : {o.TraceFormat : o \in OptionSettings},
              ProfilerAppend : {o.ProfilerAppend : o \in OptionSettings},
              CollectMemory : BOOLEAN,
              CollectTime : BOOLEAN,
              TraceOutputDir : {<<"/", "t">>},
              TraceOutputName : {<<"t", "%", "p">>},
              ProfilerOutputDir : {<<"/", "p">>},
              ProfilerOutputName : {<<"c", "%", "p">>}]
  IN  {c \in all :
         /\ [TraceOptions |-> c.TraceOptions, TraceFormat |-> c.TraceFormat,
             ProfilerAppend |-> c.ProfilerAppend] \in OptionSettings
         /\ c.Enable \/ (/\ ~c.TraceOptions /\ c.TraceFormat = 0
                      /\ ~c.ProfilerAppend /\ ~c.CollectMemory /\ ~c.CollectTime)}

-----------------------------------------------------------------------------
(* The state machine *)

NoCall ==
  [op |-> "none", file |-> OtherVal(<<>>), options |-> 0, notice |-> FALSE,
   dir |-> NullStr, key |-> "",
   ret |-> RetVoid, err |-> "none", accessed |-> FALSE, beginFrames |-> 0,
   attachTried |-> FALSE, stops |-> 0, ifNeeded |-> FALSE, trail |-> <<>>,
   asserts |-> {}]

\* the record of an operation that worked on the thread's state m
CallOf(op, file, options, m) ==
  [op |-> op, file |-> file, options |-> options, notice |-> FALSE,
   dir |-> NullStr, key |-> "",
   ret |-> m.ret, err |-> m.err, accessed |-> m.accessed,
   beginFrames |-> m.beginFrames, attachTried |-> m.attachTried,
   stops |-> m.stops, ifNeeded |-> m.ifNeeded, trail |-> m.trail,
   asserts |-> m.asserts]

\* the operation leaves the thread in state m
Commit(op, file, options, m) ==
  /\ s_request' = [s_request EXCEPT !.m_profiler_attached = m.attached]
  /\ factory' = m.factory
  /\ profiler' = m.profiler
  /\ call' = CallOf(op, file, options, m)

Init ==
  /\ phase = "norequest"
  /\ shut = {}
  /\ XDebugExtension \in Configurations
  /\ s_request = [m_profiler_attached |-> FALSE, m_init_time |-> 0]
  /\ factory = "none"
  /\ profiler = NoProfiler
  /\ coverage = FALSE
  /\ covData = FALSE
  /\ globals = NoGlobals
  /\ env = [pid |-> 42, time |-> 1, usec |-> 5, rand |-> 255, cwdCrc |-> 7,
            sessionName |-> NoSessionName]
  /\ call = NoCall

\* a request starts on the thread: its globals are set up and the request
\* data is initialized
XDebugRequestData_requestInit ==
  /\ phase = "norequest"
  /\ phase' = "init"
  /\ shut' = {}
  /\ globals' \in RequestGlobals
  /\ s_request' = [m_profiler_attached |-> FALSE, m_init_time |-> env.time]
  /\ call' = [NoCall EXCEPT !.op = "XDebugRequestData::requestInit"]
  /\ UNCHANGED <<XDebugExtension, factory, profiler, coverage, covData, env>>

Run_XDebugExtension_requestInit ==
  /\ phase = "init"
  /\ phase' = "running"
  /\ Commit("XDebugExtension::requestInit", OtherVal(<<>>), 0,
            XDebugExtension_requestInit(BeginCall))
  /\ UNCHANGED <<shut, XDebugExtension, coverage, covData, globals, env>>

\* the extension's functions are registered only when it is enabled (moduleInit)
InScript == phase = "running" /\ XDebugExtension.Enable

Call_xdebug_start_trace ==
  /\ InScript
  /\ \E traceFileVar \in TraceFileArgs, options \in TraceOptionArgs :
       Commit("xdebug_start_trace", traceFileVar, options,
              xdebug_start_trace(BeginCall, traceFileVar, options))
  /\ UNCHANGED <<phase, shut, XDebugExtension, coverage, covData, globals, env>>

Call_xdebug_stop_trace ==
  /\ InScript
  /\ Commit("xdebug_stop_trace", OtherVal(<<>>), 0, xdebug_stop_trace(BeginCall))
  /\ UNCHANGED <<phase, shut, XDebugExtension, coverage, covData, globals, env>>

Call_xdebug_get_tracefile_name ==
  /\ InScript
  /\ Commit("xdebug_get_tracefile_name", OtherVal(<<>>), 0,
            xdebug_get_tracefile_name(BeginCall))
  /\ UNCHANGED <<phase, shut, XDebugExtension, coverage, covData, globals, env>>

Call_xdebug_get_profiler_filename ==
  /\ InScript
  /\ Commit("xdebug_get_profiler_filename", OtherVal(<<>>), 0,
            xdebug_get_profiler_filename(BeginCall))
  /\ UNCHANGED <<phase, shut, XDebugExtension, coverage, covData, globals, env>>

Call_xdebug_check_trigger_vars ==
  /\ InScript
  /\ Commit("_xdebug_check_trigger_vars", OtherVal(<<>>), 0,
            _xdebug_check_trigger_vars(BeginCall))
  /\ UNCHANGED <<phase, shut, XDebugExtension, coverage, covData, globals, env>>

\* a profiler setting is changed during the request
ChangeProfilerSetting ==
  /\ InScript
  /\ \E sym \in ProfilerSettings, val \in BOOLEAN :
       /\ Commit(sym, OtherVal(<<>>), 0, SetProfilerSetting(BeginCall, sym, val))
       /\ XDebugExtension' = [XDebugExtension EXCEPT ![sym] = val]
  /\ UNCHANGED <<phase, shut, coverage, covData, globals, env>>

Call_xdebug_start_code_coverage ==
  /\ InScript
  /\ \E options \in CoverageOptionArgs, nested \in BOOLEAN :
       LET r == xdebug_start_code_coverage(coverage, options, nested)
       IN  /\ coverage' = r.coverage
           /\ call' = [NoCall EXCEPT !.op = "xdebug_start_code_coverage",
                                     !.options = options,
                                     !.err = r.err,
                                     !.ret = IF r.err = "none" THEN RetVoid
                                             ELSE RetError,
                                     !.notice = r.notice]
  /\ UNCHANGED <<phase, shut, XDebugExtension, s_request, factory, profiler,
                 covData, globals, env>>

Call_xdebug_stop_code_coverage ==
  /\ InScript
  /\ \E cleanup \in BOOLEAN :
       /\ coverage' = FALSE
       /\ covData' = IF cleanup THEN FALSE ELSE covData
       /\ call' = [NoCall EXCEPT !.op = "xdebug_stop_code_coverage",
                                 !.options = IF cleanup THEN 1 ELSE 0]
  /\ UNCHANGED <<phase, shut, XDebugExtension, s_request, factory, profiler,
                 globals, env>>

Call_xdebug_get_code_coverage ==
  /\ InScript
  /\ call' = [NoCall EXCEPT !.op = "xdebug_get_code_coverage",
                            !.ret = IF coverage THEN RetArray(covData)
                                    ELSE RetArray(FALSE)]
  /\ UNCHANGED <<phase, shut, XDebugExtension, s_request, factory, profiler,
                 coverage, covData, globals, env>>

\* the script runs a line while coverage is on
RecordCoverage ==
  /\ phase = "running"
  /\ coverage
  /\ ~covData
  /\ covData' = TRUE
  /\ call' = [NoCall EXCEPT !.op = "script"]
  /\ UNCHANGED <<phase, shut, XDebugExtension, s_request, factory, profiler,
                 coverage, globals, env>>

\* another profiler of the runtime takes the thread's slot, or gives it back
OtherProfilerStart ==
  /\ phase = "running"
  /\ FactoryStart(factory)
  /\ factory' = "other"
  /\ call' = [NoCall EXCEPT !.op = "other profiler start"]
  /\ UNCHANGED <<phase, shut, XDebugExtension, s_request, profiler, coverage,
                 covData, globals, env>>

OtherProfilerStop ==
  /\ phase = "running"
  /\ factory = "other"
  /\ factory' = "none"
  /\ call' = [NoCall EXCEPT !.op = "other profiler stop"]
  /\ UNCHANGED <<phase, shut, XDebugExtension, s_request, profiler, coverage,
                 covData, globals, env>>

\* time passes
Tick ==
  /\ env.time < MaxTime
  /\ env' = [env EXCEPT !.time = @ + 1]
  /\ call' = [NoCall EXCEPT !.op = "tick"]
  /\ UNCHANGED <<phase, shut, XDebugExtension, s_request, factory, profiler,
                 coverage, covData, globals>>

\* the phase after the shutdown handlers in done have run
AfterShutdown(done) ==
  IF done = {"XDebugRequestData", "XDebugExtension"} THEN "norequest" ELSE "shutdown"

\* the request ends, normally or by an error: the two shutdown handlers run,
\* in either order
XDebugRequestData_requestShutdown ==
  /\ phase \in {"running", "shutdown"}
  /\ "XDebugRequestData" \notin shut
  /\ shut' = shut \cup {"XDebugRequestData"}
  /\ phase' = AfterShutdown(shut')
  /\ s_request' = [m_profiler_attached |-> FALSE, m_init_time |-> 0]
  /\ call' = [NoCall EXCEPT !.op = "XDebugRequestData::requestShutdown"]
  /\ UNCHANGED <<XDebugExtension, factory, profiler, coverage, covData, globals, env>>

Run_XDebugExtension_requestShutdown ==
  /\ phase \in {"running", "shutdown"}
  /\ "XDebugExtension" \notin shut
  /\ shut' = shut \cup {"XDebugExtension"}
  /\ phase' = AfterShutdown(shut')
  /\ Commit("XDebugExtension::requestShutdown", OtherVal(<<>>), 0,
            XDebugExtension_requestShutdown(BeginCall))
  /\ UNCHANGED <<XDebugExtension, coverage, covData, globals, env>>

\* The profiler's lifecycle.  The code-coverage operations read and write only
\* the thread's coverage flag and data, which nothing here touches: they are
\* the specification SpecCoverage.
Next ==
  \/ XDebugRequestData_requestInit
  \/ Run_XDebugExtension_requestInit
  \/ Call_xdebug_start_trace
  \/ Call_xdebug_stop_trace
  \/ Call_xdebug_get_tracefile_name
  \/ Call_xdebug_get_profiler_filename
  \/ Call_xdebug_check_trigger_vars
  \/ ChangeProfilerSetting
  \/ OtherProfilerStart
  \/ OtherProfilerStop
  \/ Tick
  \/ XDebugRequestData_requestShutdown
  \/ Run_XDebugExtension_requestShutdown

Spec == Init /\ [][Next]_vars

\* Code coverage over the requests of a thread.
NextCoverage ==
  \/ XDebugRequestData_requestInit
  \/ Run_XDebugExtension_requestInit
  \/ Call_xdebug_start_code_coverage
  \/ Call_xdebug_stop_code_coverage
  \/ Call_xdebug_get_code_coverage
  \/ RecordCoverage
  \/ XDebugRequestData_requestShutdown
  \/ Run_XDebugExtension_requestShutdown

SpecCoverage == Init /\ [][NextCoverage]_vars

-----------------------------------------------------------------------------
(* The functions of the request's ambient data, applied to drawn inputs *)

\* templates are drawn up to this length
MaxLen == 3

\* the largest options argument handed to start_tracing
MaxOptions == 15

\* sequences over chars of length 0..n
RECURSIVE SeqsUpTo(_, _)
SeqsUpTo(chars, n) ==
  IF n = 0 THEN {<<>>}
  ELSE LET shorter == SeqsUpTo(chars, n - 1)
       IN  shorter \cup {Append(t, c) : t \in shorter, c \in chars}

\* the characters the switch of format_filename has a case for
DirectiveChars == {"c", "p", "r", "s", "t", "u", "H", "R", "U", "S", "%"}

\* a literal, the percent sign, a letter without a case and one with a case
TemplateChars == {"a", "%", "q", "p"}

Templates ==
  SeqsUpTo(TemplateChars, MaxLen)
    \cup {<<"%", c>> : c \in DirectiveChars}
    \cup {<<"a", "%", c, "b">> : c \in {"S", "R"}}

DirArgs == {NullStr, Str(<<"d">>)}


TriggerKeys == {s_XDEBUG_PROFILE, "XDEBUG_TRACE"}

ServerStrings ==
  [k \in {s_SCRIPT_NAME, s_HTTP_HOST, s_REQUEST_URI, s_UNIQUE_ID} |->
     CASE k = s_SCRIPT_NAME -> StringVal(<<"/", "a", " ", "b", ".", "c">>)
       [] k = s_HTTP_HOST -> StringVal(<<"h", "\\", "x">>)
       [] k = s_REQUEST_URI -> StringVal(<<"/", "?", "a", "&", "+">>)
       [] k = s_UNIQUE_ID -> StringVal(<<"u", "+", "1">>)]

ServerNumbers ==
  [k \in {s_SCRIPT_NAME, s_HTTP_HOST, s_REQUEST_URI, s_UNIQUE_ID} |->
     OtherVal(<<"5">>)]

\* $_SERVER: not set, empty, holding strings, holding numbers
ServerGlobals ==
  {NoGlobals} \cup
  {[g \in {s_SERVER} |-> a] : a \in {EmptyArray, ServerStrings, ServerNumbers}}

\* a global variable that has the name of the server key
UriGlobals == {NoGlobals, [g \in {s_REQUEST_URI} |-> StringVal(<<"/">>)]}

SessionCookie ==
  [k \in {SessionName.str, s_XDEBUG_PROFILE} |->
     IF k = s_XDEBUG_PROFILE THEN StringVal(<<"1">>)
     ELSE StringVal(<<"s", "/", "1">>)]

\* $_COOKIE: not set, holding the session id and the trigger, holding a
\* session entry that is not a string; and a global named as s_COOKIE is
CookieGlobals ==
  { NoGlobals,
    [g \in {"_COOKIE"} |-> SessionCookie],
    [g \in {"_COOKIE"} |-> [k \in {SessionName.str} |-> OtherVal(<<"7">>)]],
    [g \in {s_COOKIE} |-> SessionCookie] }

\* $_GET and $_POST
QueryGlobals ==
  { NoGlobals,
    [g \in {s_GET} |-> TriggerArray],
    [g \in {s_POST} |-> TriggerArray],
    [g \in {s_GET, s_POST} |-> EmptyArray] }

AmbientGlobals ==
  {s @@ u @@ c @@ q :
     s \in ServerGlobals, u \in UriGlobals, c \in CookieGlobals, q \in QueryGlobals}

InitAmbient ==
  /\ phase = "running"
  /\ shut = {}
  /\ XDebugExtension \in {c \in Configurations :
        /\ c.Enable /\ ~c.ProfilerEnable /\ ~c.ProfilerEnableTrigger /\ ~c.AutoTrace
        /\ ~c.TraceOptions /\ ~c.CollectMemory /\ ~c.CollectTime}
  /\ s_request = [m_profiler_attached |-> FALSE, m_init_time |-> 1]
  /\ factory = "none"
  /\ profiler = NoProfiler
  /\ coverage = FALSE
  /\ covData = FALSE
  /\ globals \in AmbientGlobals
  /\ env \in {[pid |-> 42, time |-> 1, usec |-> 5, rand |-> 255, cwdCrc |-> 7,
               sessionName |-> n] : n \in {NoSessionName, SessionName}}
  /\ call = NoCall

Apply_format_filename ==
  /\ call = NoCall
  /\ \E dir \in DirArgs, formatFile \in Templates, addSuffix \in BOOLEAN :
       call' = [NoCall EXCEPT
                  !.op = "format_filename",
                  !.dir = dir,
                  !.file = StringVal(formatFile),
                  !.options = IF addSuffix THEN 1 ELSE 0,
                  !.ret = RetString(format_filename(dir, formatFile, addSuffix))]
  /\ UNCHANGED <<phase, shut, XDebugExtension, s_request, factory, profiler,
                 coverage, covData, globals, env>>

Apply_isTriggerSet ==
  /\ call = NoCall
  /\ \E trigger \in TriggerKeys :
       call' = [NoCall EXCEPT
                  !.op = "isTriggerSet",
                  !.key = trigger,
                  !.ret = IF isTriggerSet(trigger) THEN RetTrue ELSE RetFalse]
  /\ UNCHANGED <<phase, shut, XDebugExtension, s_request, factory, profiler,
                 coverage, covData, globals, env>>

NextAmbient ==
  \/ Apply_format_filename
  \/ Apply_isTriggerSet

SpecAmbient == InitAmbient /\ [][NextAmbient]_vars

\* start_tracing and start_profiling on the profiler of a thread that has just
\* attached
TracingConfigurations ==
  [Enable : {TRUE}, ProfilerEnable : {FALSE}, ProfilerEnableTrigger : {FALSE},
   AutoTrace : {FALSE}, TraceOptions : BOOLEAN, TraceFormat : 0..2,
   ProfilerAppend : BOOLEAN, CollectMemory : {FALSE}, CollectTime : {FALSE},
   TraceOutputDir : {<<"/", "t">>}, TraceOutputName : {<<"t", "%", "p">>},
   ProfilerOutputDir : {<<"/", "p">>}, ProfilerOutputName : {<<"c", "%", "p">>}]

FilenameArgs == {NullStr, Str(<<"f", "%", "t">>)}

InitTracing ==
  /\ phase = "running"
  /\ shut = {}
  /\ XDebugExtension \in TracingConfigurations
  /\ s_request = [m_profiler_attached |-> TRUE, m_init_time |-> 1]
  /\ factory = "xdebug"
  /\ profiler = NewProfiler
  /\ coverage = FALSE
  /\ covData = FALSE
  /\ globals \in RequestGlobals
  /\ env = [pid |-> 42, time |-> 1, usec |-> 5, rand |-> 255, cwdCrc |-> 7,
            sessionName |-> NoSessionName]
  /\ call = NoCall

Apply_start_tracing ==
  /\ ~profiler.tracing
  /\ \E filename \in FilenameArgs, options \in 0..MaxOptions :
       Commit("start_tracing",
              IF filename.isNull THEN OtherVal(<<>>) ELSE StringVal(filename.str),
              options, start_tracing(BeginCall, filename, options))
  /\ UNCHANGED <<phase, shut, XDebugExtension, coverage, covData, globals, env>>

Apply_start_profiling ==
  /\ ~profiler.profiling
  /\ Commit("start_profiling", OtherVal(<<>>), 0, start_profiling(BeginCall))
  /\ UNCHANGED <<phase, shut, XDebugExtension, coverage, covData, globals, env>>

NextTracing ==
  \/ Apply_start_tracing
  \/ Apply_start_profiling

SpecTracing == InitTracing /\ [][NextTracing]_vars

-----------------------------------------------------------------------------
(* Properties *)

Attached == s_request.m_profiler_attached

\* a trace is running on the attached profiler
Tracing == Attached /\ profiler.tracing

BothHandlers == {"XDebugRequestData", "XDebugExtension"}

\* the operation left the attachment and the bound profiler as they were
LifecycleUnchanged ==
  /\ s_request' = s_request
  /\ factory' = factory
  /\ profiler' = profiler

C2_PolicyCheckIdempotent ==
  [][(Attached /\ call'.op \in {"_xdebug_check_trigger_vars",
                                 "XDebugExtension::requestInit"})
       => (call'.err = "none" /\ LifecycleUnchanged)]_vars

\* C3: once both request-shutdown handlers have run, in whichever order, no
\* xdebug profiler is bound to the thread's factory slot.
C3_ShutdownReleases ==
  (phase = "norequest" /\ shut = BothHandlers) => factory # "xdebug"

\* C4: in every state the flag m_profiler_attached is true iff the factory
\* has an xdebug profiler bound to the thread; the flag does not become false
\* without a factory stop, nor true without a successful factory start.
C4_FlagIffBound ==
  /\ [](Attached <=> factory = "xdebug")
  /\ [][(Attached /\ ~Attached') => call'.stops > 0]_vars
  /\ [][(~Attached /\ Attached') => (FactoryStart(factory) /\ factory' = "xdebug")]_vars

\* C5: xdebug_start_trace(f, 0) called while no trace is running and followed
\* at once by xdebug_stop_trace makes xdebug_stop_trace return the path
\* resolved for f, and no trace is running afterwards.
C5_RoundTrip ==
  [][(/\ call.op = "xdebug_start_trace"
      /\ call.file.isString
      /\ call.options = 0
      /\ call.err = "none"
      /\ (call.ret.kind = "string" \/ call.attachTried)
      /\ call'.op = "xdebug_stop_trace")
       => (/\ call'.ret = RetString(format_filename(NullStr, call.file.str, TRUE))
           /\ ~Tracing')]_vars

\* C6: xdebug_start_trace called while a trace is running returns false,
\* raises no error, marks no begin frame and leaves the trace's filename and
\* options and the attachment as they were.
C6_StartTraceWhileTracing ==
  [][(Tracing /\ call'.op = "xdebug_start_trace")
       => (/\ call'.ret = RetFalse
           /\ call'.err = "none"
           /\ call'.beginFrames = 0
           /\ LifecycleUnchanged)]_vars

C6_Witness ==
  /\ call.op = "xdebug_start_trace"
  /\ call.ret = RetFalse
  /\ ~call.attachTried
  /\ Tracing

\* C7: xdebug_start_trace called while detached, when the factory refuses to
\* bind a profiler, ends with ProfilerUnavailable: the flag stays false, no
\* trace or profile is started, the profiler accessor is not reached and no
\* filename is returned.
C7_StartTraceUnavailable ==
  [][(~Attached /\ ~FactoryStart(factory) /\ call'.op = "xdebug_start_trace")
       => (/\ call'.err = "ProfilerUnavailable"
           /\ call'.ret = RetError
           /\ ~call'.accessed
           /\ call'.beginFrames = 0
           /\ LifecycleUnchanged)]_vars

C7_Witness ==
  /\ call.op = "xdebug_start_trace"
  /\ call.err = "ProfilerUnavailable"
  /\ ~Attached
  /\ factory = "other"

\* C8: xdebug_stop_trace called while detached, or attached and not tracing,
\* returns false, raises no error and changes nothing: a profiler that is
\* only profiling stays attached, with its session and filename.
C8_StopTraceIdle ==
  [][(~Tracing /\ call'.op = "xdebug_stop_trace")
       => (/\ call'.ret = RetFalse
           /\ call'.err = "none"
           /\ call'.stops = 0
           /\ LifecycleUnchanged)]_vars

C8_Witness ==
  /\ call.op = "xdebug_stop_trace"
  /\ call.ret = RetFalse
  /\ Attached
  /\ profiler.profiling
  /\ ~profiler.tracing

\* what the profiler still collects when detach-if-idle runs in the step
CollectingAtCheck ==
  IF call'.op = "xdebug_stop_trace" THEN profiler.profiling
  ELSE isCollecting(profiler)

\* C9: detach-if-idle, run after stop-trace and after a setting change, leaves
\* the profiler bound when tracing or profiling is still active and detaches
\* it exactly when neither is; after stop-trace has returned a filename the
\* profiler is attached iff it is profiling.
C9_DetachIfIdle ==
  [][call'.ifNeeded
       => (/\ CollectingAtCheck
                => (Attached' /\ factory' = "xdebug" /\ call'.stops = 0
                    /\ isCollecting(profiler'))
           /\ ~CollectingAtCheck
                => (~Attached' /\ factory' = "none" /\ call'.stops = 1)
           /\ (call'.op = "xdebug_stop_trace" /\ call'.ret.kind = "string")
                => (Attached' <=> profiler.profiling))]_vars

C9_Witness ==
  /\ call.op = "xdebug_stop_trace"
  /\ call.ret.kind = "string"
  /\ call.ifNeeded
  /\ call.stops = 1
  /\ ~Attached
  /\ factory = "none"

\* C10: xdebug_start_code_coverage with nonzero options fails with
\* UnsupportedOption and changes nothing: the coverage flag is what it was.
C10_CoverageOptionGuard ==
  [][(call'.op = "xdebug_start_code_coverage" /\ call'.options # 0)
       => (/\ call'.err = "UnsupportedOption"
           /\ coverage' = coverage
           /\ covData' = covData
           /\ LifecycleUnchanged)]_vars

C10_Witness ==
  /\ call.op = "xdebug_start_code_coverage"
  /\ call.options # 0
  /\ call.err = "UnsupportedOption"
  /\ coverage

\* C11: after coverage was started and lines were recorded,
\* xdebug_stop_code_coverage without cleanup keeps the recorded data, so that
\* the xdebug_get_code_coverage that follows returns it; with cleanup the data
\* is cleared and the report that follows returns nothing.
C11_StopKeepsReport ==
  /\ [][(call'.op = "xdebug_stop_code_coverage" /\ coverage)
          => covData' = (covData /\ call'.options = 0)]_vars
  /\ [][(/\ call.op = "xdebug_stop_code_coverage"
         /\ call'.op = "xdebug_get_code_coverage")
          => call'.ret = RetArray(covData)]_vars

\* C12: the policy check at the start of a request attaches only when Enable
\* is on and isProfilerNeeded() holds; while Enable is off the profiler is
\* attached in no state, no xdebug profiler is bound and no operation, request
\* shutdown included, calls the factory's stop.
C12_EnableGuardsAttach ==
  /\ [](~XDebugExtension.Enable
          => (~Attached /\ factory # "xdebug" /\ call.stops = 0
              /\ ~call.attachTried))
  /\ [][(/\ call'.op = "XDebugExtension::requestInit"
         /\ (call'.attachTried \/ Attached'))
          => (XDebugExtension.Enable /\ isProfilerNeeded)]_vars

\* a request has run from start to end with Enable off although the policy
\* switches ask for a profiler
C12_Witness ==
  /\ ~XDebugExtension.Enable
  /\ isProfilerNeeded
  /\ call.op = "XDebugExtension::requestShutdown"
  /\ phase = "norequest"
  /\ shut = BothHandlers
  /\ ~Attached

\* the request's GET, POST and COOKIE maps
RequestMaps == {"_GET", "_POST", "_COOKIE"}

\* C13: isTriggerSet(key) is true iff the key is present in at least one of
\* the request's GET, POST and COOKIE maps; a key present only in the COOKIE
\* map counts.
C13_TriggerInspection ==
  call.op = "isTriggerSet"
    => (call.ret = RetTrue
          <=> \E g \in RequestMaps : call.key \in DOMAIN GlobalArray(g))

\* the bound profiler after the setting named by the step's operation has
\* been forwarded to it
Forwarded ==
  IF call'.op = "CollectMemory"
    THEN [profiler EXCEPT !.collectMemory = XDebugExtension'.CollectMemory]
    ELSE [profiler EXCEPT !.collectTime = XDebugExtension'.CollectTime]

\* C14: a change of the memory-collection or time-collection setting during a
\* request succeeds; while detached it reaches no profiler and leaves the
\* thread detached; while attached it forwards the new value to the bound
\* profiler and runs detach-if-idle, which leaves a profiler that is tracing
\* or profiling attached and bound.
C14_SettingChange ==
  [][call'.op \in ProfilerSettings
       => (/\ call'.err = "none"
           /\ ~Attached
                => (~call'.accessed /\ ~call'.ifNeeded /\ LifecycleUnchanged)
           /\ Attached
                => (/\ call'.accessed
                    /\ call'.ifNeeded
                    /\ isCollecting(profiler)
                         => (/\ Attached'
                             /\ factory' = factory
                             /\ call'.stops = 0
                             /\ profiler' = Forwarded)))]_vars

C14_Witness ==
  /\ call.op = "CollectTime"
  /\ call.ifNeeded
  /\ Attached
  /\ factory = "xdebug"
  /\ profiler.tracing
  /\ profiler.collectTime
  /\ ~profiler.collectMemory

\* the directory and the suffix format_filename was asked to put around body
Framed(body) ==
  (IF call.dir.isNull THEN <<>> ELSE Append(call.dir.str, "/"))
    \o body
    \o (IF call.options = 1 THEN <<".", "x", "t">> ELSE <<>>)

\* the template t read from the left: a literal stands for itself, %% for one
\* percent sign, % and a letter of the directive table for its substitution,
\* % and any other letter for the two characters, a last % for itself
RECURSIVE Scanned(_)
Scanned(t) ==
  IF t = <<>> THEN <<>>
  ELSE IF Head(t) # "%" THEN <<Head(t)>> \o Scanned(Tail(t))
  ELSE IF Len(t) = 1 THEN <<"%">>
  ELSE LET rest == SubSeq(t, 3, Len(t))
       IN  IF t[2] = "%" THEN <<"%">> \o Scanned(rest)
           ELSE IF t[2] \in DirectiveChars THEN Directive(t[2]) \o Scanned(rest)
           ELSE <<"%", t[2]>> \o Scanned(rest)

\* C15: format_filename scans the template from the left: every literal
\* character is copied, %% gives one %, a % followed by a letter that is no
\* directive is copied with that letter, and a % that ends the template is
\* copied as one %; no character of the template is dropped.
C15_TemplateScan ==
  call.op = "format_filename"
    => call.ret = RetString(Framed(Scanned(call.file.str)))

C15_Witness ==
  /\ call.op = "format_filename"
  /\ call.dir.isNull
  /\ call.options = 0
  /\ call.file.str = <<"%", "q", "%">>
  /\ call.ret = RetString(<<"%", "q", "%">>)

\* the directives that read the request's ambient maps
AmbientChars == {"s", "H", "R", "U", "S"}

\* the entry of $_SERVER or $_COOKIE that directive c stands for; the session
\* id has no entry while session.name is unset
AmbientSource(c) ==
  LET map == IF c = "S" THEN "_COOKIE" ELSE "_SERVER"
      key == CASE c = "s" -> "SCRIPT_NAME"
               [] c = "H" -> "HTTP_HOST"
               [] c = "R" -> "REQUEST_URI"
               [] c = "U" -> "UNIQUE_ID"
               [] c = "S" -> env.sessionName.str
      known == c # "S" \/ ~env.sessionName.isNull
  IN  IF known /\ map \in DOMAIN globals /\ key \in DOMAIN globals[map]
        THEN [present |-> TRUE, val |-> globals[map][key]]
        ELSE [present |-> FALSE, val |-> OtherVal(<<>>)]

IsStringSource(c) == AmbientSource(c).present /\ AmbientSource(c).val.isString

\* format_filename was applied to the template of the single directive c
OneDirective(c) ==
  /\ call.op = "format_filename"
  /\ call.file.str = <<"%", c>>

\* C16: an ambient directive (%s, %H, %R, %U, %S) whose value is absent or is
\* not a string, or %S while session.name is unset, adds no character to the
\* output, not even a %, and raises no error.
C16_AbsentAddsNothing ==
  \A c \in AmbientChars :
    (OneDirective(c) /\ ~IsStringSource(c))
      => (call.ret = RetString(Framed(<<>>)) /\ call.err = "none")

\* the values held by the request's server and cookie arrays
AmbientValues ==
  {globals[g][k].str :
     <<g, k>> \in {e \in {"_SERVER", "_COOKIE", s_COOKIE} \X
                          {"SCRIPT_NAME", "HTTP_HOST", "REQUEST_URI",
                           "UNIQUE_ID", "PHPSESSID"} :
                     e[1] \in DOMAIN globals /\ e[2] \in DOMAIN globals[e[1]]}}

PathUnsafe == {"/", "\\", ".", "?", "&", "+", " "}

\* out is the value v with every path-unsafe character replaced by _
IsSanitized(v, out) ==
  /\ Len(out) = Len(v)
  /\ \A i \in 1..Len(v) : out[i] = IF v[i] \in PathUnsafe THEN "_" ELSE v[i]

\* C17: whenever %s, %H, %R, %U or %S substitutes an ambient value, what is
\* inserted has the length of the value and none of / \ . ? & + or space: each
\* of these is replaced by _ and every other character is left as it is.
C17_Sanitized ==
  \A c \in AmbientChars :
    (/\ OneDirective(c)
     /\ call.dir.isNull
     /\ call.options = 0
     /\ call.ret.str \notin {<<>>, <<"%">>})
      => (/\ \E v \in AmbientValues : IsSanitized(v, call.ret.str)
          /\ \A i \in 1..Len(call.ret.str) : call.ret.str[i] \notin PathUnsafe)

C17_Witness ==
  /\ OneDirective("R")
  /\ call.dir.isNull
  /\ call.options = 0
  /\ AmbientSource("R").val = StringVal(<<"/", "?", "a", "&", "+">>)
  /\ call.ret = RetString(<<"_", "_", "a", "_", "_">>)

\* the value v as it is to appear in a filename
SanitizedValue(v) ==
  [i \in 1..Len(v) |-> IF v[i] \in PathUnsafe THEN "_" ELSE v[i]]

\* C18: an ambient directive whose source holds a string resolves to that
\* string, sanitized: %s, %H, %R and %U to the entry of the server map (for %R
\* the REQUEST_URI entry, decided by its presence in the server map), %S to the
\* entry of the request's COOKIE map under the session name.
C18_OwnSource ==
  \A c \in AmbientChars :
    (OneDirective(c) /\ IsStringSource(c))
      => call.ret = RetString(Framed(SanitizedValue(AmbientSource(c).val.str)))

\* the steps of a successful attach under the policy of the state
AttachTrail ==
  <<"attached">>
    \o (IF isProfilingNeeded THEN <<"enableProfiling">> ELSE <<>>)
    \o (IF isTracingNeeded THEN <<"enableTracing">> ELSE <<>>)
    \o <<"setCollectMemory", "setCollectTime">>

\* C19: a successful attach sets the flag and then, in this order, starts
\* profiling iff isProfilingNeeded(), starts tracing under the configured
\* directory and name iff isTracingNeeded(), and applies the configured
\* memory and time flags; when neither is needed it leaves the profiler
\* attached with no profile and, until the caller starts one, no trace.
C19_AttachSequence ==
  [][(call'.attachTried /\ call'.err = "none")
       => (/\ Attached'
           /\ factory' = "xdebug"
           /\ Len(call'.trail) >= Len(AttachTrail)
           /\ SubSeq(call'.trail, 1, Len(AttachTrail)) = AttachTrail
           /\ profiler'.profiling = isProfilingNeeded
           /\ isProfilingNeeded
                => profiler'.profFile =
                     format_filename(Str(XDebugExtension.ProfilerOutputDir),
                                     XDebugExtension.ProfilerOutputName, FALSE)
           /\ isTracingNeeded
                => (/\ profiler'.tracing
                    /\ profiler'.traceFile =
                         format_filename(Str(XDebugExtension.TraceOutputDir),
                                         XDebugExtension.TraceOutputName, TRUE))
           /\ (~isTracingNeeded /\ call'.op # "xdebug_start_trace")
                => ~profiler'.tracing
           /\ profiler'.collectMemory = XDebugExtension.CollectMemory
           /\ profiler'.collectTime = XDebugExtension.CollectTime)]_vars

C19_Witness ==
  /\ call.op = "XDebugExtension::requestInit"
  /\ call.trail = <<"attached", "enableProfiling", "enableTracing",
                    "setCollectMemory", "setCollectTime">>
  /\ Attached
  /\ profiler.profiling
  /\ profiler.tracing
  /\ profiler.collectMemory = XDebugExtension.CollectMemory

\* bit b (a power of two) is set in the option word n
BitSet(n, b) == (n \div b) % 2 = 1

\* the bit the configuration adds to the options of a trace
ConfiguredBit(b) ==
  \/ b = k_XDEBUG_TRACE_APPEND /\ XDebugExtension.TraceOptions
  \/ b = k_XDEBUG_TRACE_COMPUTERIZED /\ XDebugExtension.TraceFormat = 1
  \/ b = k_XDEBUG_TRACE_HTML /\ XDebugExtension.TraceFormat = 2

\* C20: the options start_tracing hands to enableTracing are the bitwise OR
\* of the caller's options and the bits of the configuration: append when
\* the trace append setting is on, computerized for format 1, html for
\* format 2, none for format 0; no bit of either side is lost.
C20_OptionsMerged ==
  call.op = "start_tracing"
    => (/\ profiler.tracing
        /\ profiler.traceOpts \in 0..31
        /\ \A b \in {1, 2, 4, 8, 16} :
             BitSet(profiler.traceOpts, b)
               <=> (BitSet(call.options, b) \/ ConfiguredBit(b)))

\* the caller asks for html and a naked filename, the settings for append and
\* the computerized format
C20_Witness ==
  /\ call.op = "start_tracing"
  /\ call.options = k_XDEBUG_TRACE_HTML + k_XDEBUG_TRACE_NAKED_FILENAME
  /\ XDebugExtension.TraceOptions
  /\ XDebugExtension.TraceFormat = 1
  /\ profiler.traceOpts = 15

\* C21: start_tracing given a filename resolves it with no directory before
\* it, and given none resolves the configured trace name under the configured
\* trace directory; .xt is appended iff the naked-filename bit is not in the
\* merged options; start_profiling resolves the configured profiler name
\* under the configured profiler directory and appends no suffix.
C21_OutputPath ==
  /\ call.op = "start_tracing"
       => profiler.traceFile =
            (IF call.file.isString THEN <<>>
             ELSE Append(XDebugExtension.TraceOutputDir, "/"))
              \o Scanned(IF call.file.isString THEN call.file.str
                         ELSE XDebugExtension.TraceOutputName)
              \o (IF BitSet(profiler.traceOpts, k_XDEBUG_TRACE_NAKED_FILENAME)
                    THEN <<>> ELSE <<".", "x", "t">>)
  /\ call.op = "start_profiling"
       => (/\ profiler.profiling
           /\ profiler.profFile =
                Append(XDebugExtension.ProfilerOutputDir, "/")
                  \o Scanned(XDebugExtension.ProfilerOutputName))

\* a caller's filename with the naked-filename bit: no directory, no suffix
C21_Witness ==
  /\ call.op = "start_tracing"
  /\ call.file = StringVal(<<"f", "%", "t">>)
  /\ call.options = k_XDEBUG_TRACE_NAKED_FILENAME
  /\ profiler.traceFile = <<"f", "1">>

\* the operation of the step started a trace after any attach it made
StartedOwnTrace ==
  /\ call'.beginFrames = 1
  /\ Len(call'.trail) > 0
  /\ call'.trail[Len(call'.trail)] = "enableTracing"
  /\ call'.attachTried => ~isTracingNeeded

\* C22: whenever xdebug_start_trace returns, false or a filename, the profiler
\* is attached and a trace is running; it returns a filename only when it
\* started the trace itself, and that filename is the one the profiler holds
\* for the running trace.
C22_StartTraceReturn ==
  [][(call'.op = "xdebug_start_trace" /\ call'.err = "none")
       => (/\ call'.ret.kind \in {"false", "string"}
           /\ Attached'
           /\ factory' = "xdebug"
           /\ profiler'.tracing
           /\ call'.ret.kind = "string"
                => (/\ ~Tracing
                    /\ StartedOwnTrace
                    /\ call'.ret.str = profiler'.traceFile))]_vars

\* a detached thread attaches and starts the caller's trace
C22_Witness ==
  /\ call.op = "xdebug_start_trace"
  /\ call.attachTried
  /\ call.ret = RetString(profiler.traceFile)
  /\ call.beginFrames = 1
  /\ Attached
  /\ profiler.tracing

\* the functions that assert m_profiler_attached on entry
AttachedPreconditions ==
  {"xdebug_profiler", "detach_xdebug_profiler", "detach_xdebug_profiler_if_needed"}

\* C23: under every sequence of request init, start-trace, stop-trace,
\* filename queries, setting changes and request shutdown, xdebug_profiler,
\* detach_xdebug_profiler and detach_xdebug_profiler_if_needed are entered
\* only while m_profiler_attached is true: none of their assertions fails.
C23_AttachedAsserted ==
  call.asserts \cap AttachedPreconditions = {}

\* stop-trace has gone through the accessor, detach-if-idle and detach
C23_Witness ==
  /\ call.op = "xdebug_stop_trace"
  /\ call.accessed
  /\ call.ifNeeded
  /\ call.stops = 1
  /\ call.asserts = {}
  /\ call.ret.kind = "string"

====
